---- MODULE Spec2Model ----
(***************************************************************************)
(* Model of Radar.py: the serial frame decoder (read_serial), the current  *)
(* sample (i_angle, i_distance), the per-frame drawing decisions           *)
(* (draw_object, draw_text) and the main loop.                             *)
(*                                                                         *)
(* Text is a sequence of one-character strings.  A byte of the serial line *)
(* is either an ASCII character or the byte 0xFF (written "xFF"), which is *)
(* not valid in any UTF-8 sequence.                                        *)
(***************************************************************************)
EXTENDS Integers, Sequences, FiniteSets, TLC

VARIABLES ser, wire, sent, stream, serial_buffer, chunk, i_angle, i_distance,
          pix_distance, no_object, txt_status, txt_dist, marker, rendered,
          running, pc, log

vars == <<ser, wire, sent, stream, serial_buffer, chunk, i_angle, i_distance,
          pix_distance, no_object, txt_status, txt_dist, marker, rendered,
          running, pc, log>>

(***************************************************************************)
(* Bounds and inputs                                                       *)
(***************************************************************************)
\* number of messages the device transmits in one run
MaxMsgs == 2

\* what the device may put on the line, one message at a time
WireMessages ==
  { <<"0","7",",","1","5",".">>,          \* valid: {7,15}
    <<"3","0",",","1","2",",","9","9",".">>, \* second comma
    <<"0",",","4","0",".">>,              \* distance at the threshold
    <<" ","0",",","3","9"," ",".">>,      \* distance just below it, padded
    <<"1",",","-","5",".">>,              \* negative distance
    <<"1","2",".">>,                      \* no comma
    <<"x",",","9",".">>,                  \* non-numeric angle
    <<"1","xFF","2",",","5",".">> }       \* a byte that is not valid text

RADAR_RADIUS == 200

(***************************************************************************)
(* Text helpers: str.strip, int(), str.split(sep, 1), bytes.decode         *)
(***************************************************************************)
Digits == {"0","1","2","3","4","5","6","7","8","9"}

Whitespace == {" ", "\t", "\n", "\r"}

DigitVal(c) ==
  CASE c = "0" -> 0 [] c = "1" -> 1 [] c = "2" -> 2 [] c = "3" -> 3
    [] c = "4" -> 4 [] c = "5" -> 5 [] c = "6" -> 6 [] c = "7" -> 7
    [] c = "8" -> 8 [] c = "9" -> 9

RECURSIVE lstrip(_)
lstrip(s) ==
  IF s # <<>> /\ Head(s) \in Whitespace THEN lstrip(Tail(s)) ELSE s

RECURSIVE rstrip(_)
rstrip(s) ==
  IF s # <<>> /\ s[Len(s)] \in Whitespace
    THEN rstrip(SubSeq(s, 1, Len(s) - 1)) ELSE s

strip(s) == rstrip(lstrip(s))

\* the digits of a literal accepted by int(): digits, single underscores
\* only between digits
IsDigitBody(b) ==
  /\ b # <<>>
  /\ \A i \in 1..Len(b) : b[i] \in Digits \cup {"_"}
  /\ b[1] # "_" /\ b[Len(b)] # "_"
  /\ \A i \in 1..(Len(b) - 1) : ~(b[i] = "_" /\ b[i + 1] = "_")

Unsigned(s) == IF s # <<>> /\ Head(s) \in {"+", "-"} THEN Tail(s) ELSE s

\* int(s) does not raise ValueError
IsPyInt(s) == IsDigitBody(Unsigned(strip(s)))

RECURSIVE DigitsValue(_, _)
DigitsValue(b, acc) ==
  IF b = <<>> THEN acc
  ELSE IF Head(b) = "_" THEN DigitsValue(Tail(b), acc)
  ELSE DigitsValue(Tail(b), 10 * acc + DigitVal(Head(b)))

\* int(s), defined when IsPyInt(s)
PyInt(s) ==
  LET t == strip(s)
      v == DigitsValue(Unsigned(t), 0)
  IN IF t # <<>> /\ Head(t) = "-" THEN 0 - v ELSE v

Contains(s, c) == \E i \in 1..Len(s) : s[i] = c

\* index of the first occurrence of c in s (s contains c)
IndexOf(s, c) == CHOOSE i \in 1..Len(s) : s[i] = c /\ \A j \in 1..(i - 1) : s[j] # c

\* s.split(c, 1) when c is in s
split_once(s, c) ==
  LET i == IndexOf(s, c)
  IN <<SubSeq(s, 1, i - 1), SubSeq(s, i + 1, Len(s))>>

IsValidByte(b) == b # "xFF"

\* bytes.decode("utf-8", errors="ignore")
decode(bytes) == SelectSeq(bytes, IsValidByte)

(***************************************************************************)
(* read_serial: one message, then the while loop over the buffer           *)
(***************************************************************************)
\* lines 243-249: the two assignments are made in order inside one try
ParseMessage(msg, a, d) ==
  IF ~Contains(msg, ",") THEN [angle |-> a, distance |-> d, ok |-> FALSE]
  ELSE LET f == split_once(msg, ",")
           angle_str == f[1]
           distance_str == f[2]
       IN IF ~IsPyInt(angle_str)
            THEN [angle |-> a, distance |-> d, ok |-> FALSE]
          ELSE IF ~IsPyInt(distance_str)
            THEN [angle |-> PyInt(angle_str), distance |-> d, ok |-> FALSE]
          ELSE [angle |-> PyInt(angle_str), distance |-> PyInt(distance_str),
                ok |-> TRUE]

\* a decoder that forgets the unterminated tail of the previous call
AccumulateLossy(buffer, text) == text

\* line 237
Accumulate(buffer, text) == buffer \o text

\* lines 240-249; lg collects, per consumed message, the sample before and
\* after it
RECURSIVE ProcessMessages(_, _, _, _)
ProcessMessages(buf, a, d, lg) ==
  IF ~Contains(buf, ".")
    THEN [buffer |-> buf, angle |-> a, distance |-> d, log |-> lg]
  ELSE LET p == split_once(buf, ".")
           r == ParseMessage(p[1], a, d)
       IN ProcessMessages(p[2], r.angle, r.distance,
            Append(lg, [msg |-> p[1], before |-> <<a, d>>,
                        after |-> <<r.angle, r.distance>>, ok |-> r.ok]))

(***************************************************************************)
(* Drawing decisions                                                       *)
(***************************************************************************)
\* a threshold test that includes the threshold itself
ObjectDetectedInclusive(d) == d <= 40

\* line 133
ObjectDetected(d) == d < 40

\* a scale factor that is not 200px / 40cm
ScaleToPixelsWide(d) == d * 6

\* line 134
ScaleToPixels(d) == d * 5

\* lines 167-170
StatusText(d) == IF d > 40 THEN "Out" ELSE "In"

\* line 191
StatusColor(d) == IF d > 40 THEN "GREEN_TEXT" ELSE "RED"

\* lines 197-200
DistanceText(d) == IF d < 40 THEN <<"D:", d, "cm">> ELSE <<"D:---">>

FrameSteps == <<"fade", "grid", "sweep", "marker", "overlay">>

(***************************************************************************)
(* Initial state: module level code up to the main loop                    *)
(***************************************************************************)
Init ==
  /\ ser \in {"open", "none"}
  /\ wire = <<>>
  /\ sent = 0
  /\ stream = <<>>
  /\ serial_buffer = <<>>
  /\ chunk = <<>>
  /\ i_angle = 0
  /\ i_distance = 0
  /\ pix_distance = 0
  /\ no_object = ""
  /\ txt_status = ""
  /\ txt_dist = <<>>
  /\ marker = FALSE
  /\ rendered = <<>>
  /\ running = TRUE
  /\ pc = "events"
  /\ log = <<>>

(***************************************************************************)
(* The device                                                              *)
(***************************************************************************)
Transmit ==
  /\ ser = "open"
  /\ pc \notin {"done", "crashed"}
  /\ sent < MaxMsgs
  /\ \E m \in WireMessages : wire' = wire \o m
  /\ sent' = sent + 1
  /\ UNCHANGED <<ser, stream, serial_buffer, chunk, i_angle, i_distance,
                 pix_distance, no_object, txt_status, txt_dist, marker,
                 rendered, running, pc, log>>

(***************************************************************************)
(* The main loop                                                           *)
(***************************************************************************)
\* lines 257-261
PollEvents ==
  /\ pc = "events"
  /\ \E quit \in BOOLEAN : running' = IF quit THEN FALSE ELSE running
  /\ rendered' = <<>>
  /\ marker' = FALSE
  /\ txt_status' = ""
  /\ txt_dist' = <<>>
  /\ pc' = "read"
  /\ UNCHANGED <<ser, wire, sent, stream, serial_buffer, chunk, i_angle,
                 i_distance, pix_distance, no_object, log>>

ReadUnchanged ==
  UNCHANGED <<ser, wire, sent, stream, serial_buffer, chunk, i_angle,
              i_distance, pix_distance, no_object, txt_status, txt_dist,
              marker, rendered, running, log>>

\* lines 223-224
read_serial_closed ==
  /\ pc = "read"
  /\ ser # "open"
  /\ pc' = "fade"
  /\ ReadUnchanged

\* lines 226-229: in_waiting raises OSError
read_serial_in_waiting_error ==
  /\ pc = "read"
  /\ ser = "open"
  /\ pc' = "fade"
  /\ ReadUnchanged

\* line 233: ser.read raises; only UnicodeDecodeError is caught
read_serial_read_error ==
  /\ pc = "read"
  /\ ser = "open"
  /\ wire # <<>>
  /\ pc' = "crashed"
  /\ ReadUnchanged

\* lines 227, 231-249: bytes_available bytes of the line have arrived; with
\* none the call returns at line 231 and nothing changes
read_serial_data ==
  /\ pc = "read"
  /\ ser = "open"
  /\ \E bytes_available \in 0..Len(wire) :
       LET raw == SubSeq(wire, 1, bytes_available)
           text == decode(raw)
           r == ProcessMessages(Accumulate(serial_buffer, text),
                                i_angle, i_distance, <<>>)
       IN IF bytes_available > 0
            THEN /\ wire' = SubSeq(wire, bytes_available + 1, Len(wire))
                 /\ stream' = stream \o raw
                 /\ chunk' = text
                 /\ serial_buffer' = r.buffer
                 /\ i_angle' = r.angle
                 /\ i_distance' = r.distance
                 /\ log' = log \o r.log
            ELSE UNCHANGED <<wire, stream, chunk, serial_buffer, i_angle,
                             i_distance, log>>
  /\ pc' = "fade"
  /\ UNCHANGED <<ser, sent, pix_distance, no_object, txt_status, txt_dist,
                 marker, rendered, running>>

\* lines 216-249
read_serial ==
  \/ read_serial_closed
  \/ read_serial_in_waiting_error
  \/ read_serial_read_error
  \/ read_serial_data

\* lines 267-269
Fade ==
  /\ pc = "fade"
  /\ rendered' = Append(rendered, "fade")
  /\ pc' = "grid"
  /\ UNCHANGED <<ser, wire, sent, stream, serial_buffer, chunk, i_angle,
                 i_distance, pix_distance, no_object, txt_status, txt_dist,
                 marker, running, log>>

\* lines 90-127
draw_radar ==
  /\ pc = "grid"
  /\ rendered' = Append(rendered, "grid")
  /\ pc' = "sweep"
  /\ UNCHANGED <<ser, wire, sent, stream, serial_buffer, chunk, i_angle,
                 i_distance, pix_distance, no_object, txt_status, txt_dist,
                 marker, running, log>>

\* lines 152-161
draw_line ==
  /\ pc = "sweep"
  /\ rendered' = Append(rendered, "sweep")
  /\ pc' = "marker"
  /\ UNCHANGED <<ser, wire, sent, stream, serial_buffer, chunk, i_angle,
                 i_distance, pix_distance, no_object, txt_status, txt_dist,
                 marker, running, log>>

\* lines 130-149
draw_object ==
  /\ pc = "marker"
  /\ marker' = ObjectDetected(i_distance)
  /\ pix_distance' = IF ObjectDetected(i_distance)
                       THEN ScaleToPixels(i_distance) ELSE pix_distance
  /\ rendered' = Append(rendered, "marker")
  /\ pc' = "overlay"
  /\ UNCHANGED <<ser, wire, sent, stream, serial_buffer, chunk, i_angle,
                 i_distance, no_object, txt_status, txt_dist, running, log>>

\* lines 164-213
draw_text ==
  /\ pc = "overlay"
  /\ no_object' = StatusText(i_distance)
  /\ txt_status' = StatusColor(i_distance)
  /\ txt_dist' = DistanceText(i_distance)
  /\ rendered' = Append(rendered, "overlay")
  /\ pc' = "flip"
  /\ UNCHANGED <<ser, wire, sent, stream, serial_buffer, chunk, i_angle,
                 i_distance, pix_distance, marker, running, log>>

\* lines 278-281, then the loop test of line 256
Flip ==
  /\ pc = "flip"
  /\ pc' = IF running THEN "events" ELSE "cleanup"
  /\ UNCHANGED <<ser, wire, sent, stream, serial_buffer, chunk, i_angle,
                 i_distance, pix_distance, no_object, txt_status, txt_dist,
                 marker, rendered, running, log>>

\* lines 284-287
Cleanup ==
  /\ pc = "cleanup"
  /\ ser' = IF ser = "open" THEN "closed" ELSE ser
  /\ pc' = "done"
  /\ UNCHANGED <<wire, sent, stream, serial_buffer, chunk, i_angle,
                 i_distance, pix_distance, no_object, txt_status, txt_dist,
                 marker, rendered, running, log>>

Next ==
  \/ Transmit
  \/ PollEvents
  \/ read_serial
  \/ Fade
  \/ draw_radar
  \/ draw_line
  \/ draw_object
  \/ draw_text
  \/ Flip
  \/ Cleanup

Spec == Init /\ [][Next]_vars

(***************************************************************************)
(* Properties                                                              *)
(***************************************************************************)
Halted == pc \in {"done", "crashed"}

\* a frame whose marker decision has been taken
MarkerDecided == pc \in {"overlay", "flip"}

\* the wire grammar "<integer>,<integer>" with the first comma as separator
WellFormed(msg) ==
  /\ Contains(msg, ",")
  /\ IsPyInt(split_once(msg, ",")[1])
  /\ IsPyInt(split_once(msg, ",")[2])

IsAscii(bytes) == \A i \in 1..Len(bytes) : IsValidByte(bytes[i])

\* the samples of the messages that parsed, in stream order
Accepted(lg) ==
  LET okay(e) == e.ok
      sel == SelectSeq(lg, okay)
  IN [i \in 1..Len(sel) |-> sel[i].after]

\* the whole byte string handed to a fresh decoder in one call
FeedWhole(bytes) ==
  ProcessMessages(Accumulate(<<>>, decode(bytes)), 0, 0, <<>>)

\* the bytes a read_serial step took off the line
Consumed == SubSeq(wire, 1, Len(wire) - Len(wire'))

ReadStep == pc = "read" /\ pc' = "fade"

\* index of the last message of lg that parsed (0 when there is none)
LastOk(lg) ==
  IF \E i \in 1..Len(lg) : lg[i].ok
    THEN CHOOSE i \in 1..Len(lg) :
           lg[i].ok /\ \A j \in (i + 1)..Len(lg) : ~lg[j].ok
    ELSE 0

\* C1: a terminated message that fails to parse leaves both i_angle and
\* i_distance as they were before the message was consumed.
C1_MalformedLeavesSample ==
  \A i \in 1..Len(log) :
    ~WellFormed(log[i].msg) => log[i].after = log[i].before

\* C2: feeding an ASCII byte string in chunks, one per read_serial call,
\* gives the same accepted samples, the same current sample and the same
\* residual serial_buffer as feeding the whole string in one call.
C2_ChunkingInvariant ==
  IsAscii(stream) =>
    LET w == FeedWhole(stream)
    IN /\ Accepted(log) = Accepted(w.log)
       /\ <<i_angle, i_distance>> = <<w.angle, w.distance>>
       /\ serial_buffer = w.buffer

\* "07,1" was kept in serial_buffer and "5." completed it to the sample {7,15}
C2_Witness ==
  /\ pc = "fade"
  /\ chunk = <<"5", ".">>
  /\ log # <<>>
  /\ log[Len(log)].msg = <<"0", "7", ",", "1", "5">>
  /\ log[Len(log)].ok
  /\ <<i_angle, i_distance>> = <<7, 15>>
  /\ serial_buffer = <<>>

\* C3: one read_serial call processes every terminated message of its
\* chunk in order: afterwards serial_buffer holds no terminator and the
\* current sample is the last valid message of the chunk.
C3_LastValidMessageWins ==
  [][(ReadStep /\ Len(log') > Len(log)) =>
       LET new == SubSeq(log', Len(log) + 1, Len(log'))
       IN /\ ~Contains(serial_buffer', ".")
          /\ LastOk(new) # 0 =>
               <<i_angle', i_distance'>> = new[LastOk(new)].after]_vars

\* C4: in every frame rendered before the first successfully decoded
\* message the sample holds its defaults, the distance is at or above the
\* detection threshold and no detection marker is drawn.
C4_NoMarkerBeforeFirstSample ==
  (MarkerDecided /\ LastOk(log) = 0) =>
    /\ i_angle = 0
    /\ i_distance >= 40
    /\ ~marker

\* C5: a chunk holding bytes that are not valid text is dropped as a whole:
\* serial_buffer and the current sample are as they were before the call.
C5_InvalidChunkDropped ==
  [][(ReadStep /\ ~IsAscii(Consumed)) =>
       UNCHANGED <<serial_buffer, i_angle, i_distance, log>>]_vars

\* C6: a transport failure during a poll is never fatal: read_serial
\* returns normally and the main loop goes on to render the frame.
C6_TransportFailureNotFatal == pc # "crashed"

\* C7: the detection marker is drawn exactly when the current distance is
\* below 40.
C7_MarkerBelowThreshold ==
  MarkerDecided => (marker <=> i_distance < 40)

\* a frame about to be presented with distance 39 and its marker drawn
C7_Witness == pc = "flip" /\ i_distance = 39 /\ marker

\* C8: the display is presented only after the five render steps of the
\* frame; once the close request has been observed no further iteration
\* starts, and the program ends with the serial port closed.
C8_CooperativeShutdown ==
  /\ pc = "flip" => rendered = FrameSteps
  /\ ~running => pc # "events"
  /\ (~running /\ Halted) => ser # "open"

\* C9: the status overlay agrees with the marker decision: "In", the alert
\* colour and a numeric distance exactly when the marker is drawn, "Out"
\* and the placeholder exactly when it is not.
C9_OverlayAgreesWithMarker ==
  pc = "flip" =>
    /\ marker <=> (no_object = "In" /\ txt_status = "RED" /\ Len(txt_dist) = 3)
    /\ ~marker <=> (no_object = "Out" /\ txt_dist = <<"D:---">>)

\* C10 as stated: whenever the marker is drawn, 0 <= pix_distance < 200.
C10_PixDistanceOnRay ==
  (MarkerDecided /\ marker) =>
    /\ pix_distance = 5 * i_distance
    /\ 0 <= pix_distance
    /\ pix_distance < RADAR_RADIUS

\* C10 amended: whenever the marker is drawn, pix_distance = 5 * i_distance
\* is below RADAR_RADIUS, and it is non-negative exactly when the decoded
\* distance is non-negative.
C10_PixDistanceBelowRadius ==
  (MarkerDecided /\ marker) =>
    /\ pix_distance = 5 * i_distance
    /\ pix_distance < RADAR_RADIUS
    /\ (0 <= pix_distance <=> 0 <= i_distance)

\* a marker drawn for the decoded message "1,-5."
C10_Witness ==
  /\ pc = "flip"
  /\ marker
  /\ log # <<>>
  /\ log[Len(log)].ok
  /\ <<i_angle, i_distance>> = <<1, 0 - 5>>
  /\ pix_distance = 0 - 25

====
